---- MODULE Spec2Model ----
(***************************************************************************)
(* Study-progress dashboard: the domain model (core.py), the course        *)
(* registry, goal factory and goal evaluator (services.py), the goal rules *)
(* (goals.py), the dashboard metrics and the POST handlers                 *)
(* (routes/main.py).                                                       *)
(*                                                                         *)
(* Encoding.  An Optional value is a sequence of length 0 (None) or 1.     *)
(* Grades are integers in tenths (40 is 4.0), averages rounded to two      *)
(* decimals are integers in hundredths, dates are day numbers.  A Python   *)
(* list is a sequence; an object held in a list is named by its position.  *)
(*                                                                         *)
(* State.  studiengang is the Program in memory, ziele the rule list,      *)
(* heute the day of an evaluation and last the log of the last call.       *)
(* datei is the file studiengang.json and anfragen the requests begun;     *)
(* only the request specification changes these two.                       *)
(***************************************************************************)
EXTENDS Integers, Sequences, FiniteSets, TLC

VARIABLES studiengang, ziele, heute, last, datei, anfragen

vars == <<studiengang, ziele, heute, last, datei, anfragen>>

None == <<>>
Some(x) == <<x>>

(* ------------------------------ bounds -------------------------------- *)

\* Courses the registry specification lets add_kurs create in one Program.
MaxKurse == 2
\* Modules it lets add_modul and move_kurs hold in one Program at a time.
MaxModule == 2
\* Courses of one Program it lets carry a recorded outcome at a time.
MaxBewertet == 1

SemNummern == {1, 2}
ModulNamen == {"M", "N"}
KursNamen == {"A", "B"}
\* Grades in tenths handed to the record_* calls: the best grade, and one
\* above the pass mark 4.0.
Noten == {10, 50}
Daten == {30}
\* The day the Program starts, 2023-12-05.
Startdatum == 0
\* (ects, art, startdatum) triples handed to add_kurs.
KursParameter ==
    { [ects |-> 5, art |-> "Klausur", startdatum |-> None],
      [ects |-> 0, art |-> "Hausarbeit", startdatum |-> Some(9)] }

(* --------------------------- core.py: data ---------------------------- *)

Pruefungsleistung(art) ==
    [art |-> art, note |-> None, datum |-> None, bestanden |-> None]

Kurs(name, ects, leistung, startdatum) ==
    [name |-> name, ects |-> ects, leistung |-> leistung, startdatum |-> startdatum]

Modul(name) == [name |-> name, kurse |-> <<>>]

Semester(nummer) == [nummer |-> nummer, module |-> <<>>]

Studiengang(name, startdatum) ==
    [name |-> name, startdatum |-> startdatum, semester |-> <<>>]

\* Kurs.ist_bestanden
ist_bestanden(kurs) ==
    IF kurs.leistung.note # None
    THEN kurs.leistung.note[1] <= 40
    ELSE kurs.leistung.bestanden = Some(TRUE)

\* ist_abgeschlossen looking at the grade only.
ist_abgeschlossen_nur_note(kurs) == kurs.leistung.note # None

\* Kurs.ist_abgeschlossen
ist_abgeschlossen(kurs) ==
    kurs.leistung.note # None \/ kurs.leistung.bestanden # None

(* ------------------- services.py: CourseManager ----------------------- *)

\* The first index of a set of indices, 0 if there is none: the result of
\* the "for x in list: if ...: return x" loops, which end with "return None".
Erstes(I) == IF I = {} THEN 0 ELSE CHOOSE i \in I : \A j \in I : i <= j

_find_semester(sg, sem_nr) ==
    Erstes({ i \in 1..Len(sg.semester) : sg.semester[i].nummer = sem_nr })

_find_modul(sem, modul_name) ==
    Erstes({ i \in 1..Len(sem.module) : sem.module[i].name = modul_name })

_find_kurs(modul, kurs_name) ==
    Erstes({ i \in 1..Len(modul.kurse) : modul.kurse[i].name = kurs_name })

\* add_modul: the new Studiengang and the position <<si, mi>> of the Modul returned.
add_modul(sg, sem_nr, modul_name) ==
    LET si0 == _find_semester(sg, sem_nr)
        sg1 == IF si0 = 0
               THEN [sg EXCEPT !.semester = Append(@, Semester(sem_nr))]
               ELSE sg
        si  == IF si0 = 0 THEN Len(sg1.semester) ELSE si0
        mi0 == _find_modul(sg1.semester[si], modul_name)
    IN  IF mi0 # 0
        THEN [sg |-> sg1, ret |-> <<si, mi0>>]
        ELSE [sg  |-> [sg1 EXCEPT !.semester[si].module = Append(@, Modul(modul_name))],
              ret |-> <<si, Len(sg1.semester[si].module) + 1>>]

\* add_kurs without the look-up of an existing Kurs (lines 196-198).
add_kurs_ohne_196(sg, si, mi, name, ects, art, startdatum) ==
    [sg  |-> [sg EXCEPT !.semester[si].module[mi].kurse =
                  Append(@, Kurs(name, ects, Pruefungsleistung(art), startdatum))],
     ret |-> <<si, mi, Len(sg.semester[si].module[mi].kurse) + 1>>]

\* add_kurs on the Modul at position <<si, mi>>: the new Studiengang and the
\* position <<si, mi, ki>> of the Kurs returned.
add_kurs(sg, si, mi, name, ects, art, startdatum) ==
    LET modul == sg.semester[si].module[mi]
        existing == _find_kurs(modul, name)
    IN  IF existing # 0
        THEN [sg |-> sg, ret |-> <<si, mi, existing>>]
        ELSE [sg  |-> [sg EXCEPT !.semester[si].module[mi].kurse =
                           Append(@, Kurs(name, ects, Pruefungsleistung(art), startdatum))],
              ret |-> <<si, mi, Len(modul.kurse) + 1>>]

\* find_kurs: the position <<si, mi, ki>> of the Kurs found, or None.
find_kurs(sg, sem_nr, modul_name, kurs_name) ==
    LET si == _find_semester(sg, sem_nr)
    IN  IF si = 0 THEN None
        ELSE LET mi == _find_modul(sg.semester[si], modul_name)
             IN  IF mi = 0 THEN None
                 ELSE LET ki == _find_kurs(sg.semester[si].module[mi], kurs_name)
                      IN  IF ki = 0 THEN None ELSE <<si, mi, ki>>

\* The removal without lines 232-233: an emptied Semester is kept.
RemoveAndCleanUp_ohne_232(sg, si, mi, sem_nr, modul_name, kurs_name) ==
    LET kurse1 == SelectSeq(sg.semester[si].module[mi].kurse,
                            LAMBDA k : k.name # kurs_name)
        sg1 == [sg EXCEPT !.semester[si].module[mi].kurse = kurse1]
    IN  IF Len(kurse1) # 0 THEN sg1
        ELSE [sg1 EXCEPT !.semester[si].module =
                  SelectSeq(@, LAMBDA m : m.name # modul_name)]

\* The removal shared by move_kurs (lines 228-233) and delete_kurs (lines
\* 281-289): filter the Modul at <<si, mi>> by name, then drop the Modul by
\* name if it is empty, then drop the Semester by number if it is empty.
RemoveAndCleanUp(sg, si, mi, sem_nr, modul_name, kurs_name) ==
    LET kurse1 == SelectSeq(sg.semester[si].module[mi].kurse,
                            LAMBDA k : k.name # kurs_name)
        sg1 == [sg EXCEPT !.semester[si].module[mi].kurse = kurse1]
    IN  IF Len(kurse1) # 0 THEN sg1
        ELSE LET module1 == SelectSeq(sg1.semester[si].module,
                                      LAMBDA m : m.name # modul_name)
                 sg2 == [sg1 EXCEPT !.semester[si].module = module1]
             IN  IF Len(module1) # 0 THEN sg2
                 ELSE [sg2 EXCEPT !.semester =
                           SelectSeq(@, LAMBDA s : s.nummer # sem_nr)]

\* move_kurs: the new Studiengang and the Kurs returned (None if not found).
move_kurs(sg, from_sem, from_mod, kurs_name, to_sem, to_mod) ==
    LET pos == find_kurs(sg, from_sem, from_mod, kurs_name)
    IN  IF pos = None THEN [sg |-> sg, ret |-> None]
        ELSE
        LET kurs == sg.semester[pos[1]].module[pos[2]].kurse[pos[3]]
            sg1 == RemoveAndCleanUp(sg, pos[1], pos[2], from_sem, from_mod, kurs_name)
            dest == add_modul(sg1, to_sem, to_mod)
        IN  [sg  |-> [dest.sg EXCEPT
                         !.semester[dest.ret[1]].module[dest.ret[2]].kurse = Append(@, kurs)],
             ret |-> Some(kurs)]

\* record_grade without line 253: the flag is kept.
record_grade_ohne_253(kurs, note) ==
    [kurs EXCEPT !.leistung.note = Some(note)]

\* record_grade, on a Kurs value.
record_grade(kurs, note) ==
    [kurs EXCEPT !.leistung.note = Some(note), !.leistung.bestanden = None]

\* record_passed
record_passed(kurs, bestanden) ==
    [kurs EXCEPT !.leistung.bestanden = Some(bestanden)]

\* record_grade_and_date: note and datum are Optional.
record_grade_and_date(kurs, note, datum) ==
    [kurs EXCEPT !.leistung.note = IF note # None THEN note ELSE @,
                 !.leistung.datum = IF datum # None THEN datum ELSE @]

\* delete_kurs: the new Studiengang and the boolean returned.
delete_kurs(sg, sem_nr, modul_name, kurs_name) ==
    LET si == _find_semester(sg, sem_nr)
    IN  IF si = 0 THEN [sg |-> sg, ret |-> FALSE]
        ELSE
        LET mi == _find_modul(sg.semester[si], modul_name)
        IN  IF mi = 0 THEN [sg |-> sg, ret |-> FALSE]
            ELSE
            LET kurse0 == sg.semester[si].module[mi].kurse
                kurse1 == SelectSeq(kurse0, LAMBDA k : k.name # kurs_name)
            IN  [sg  |-> RemoveAndCleanUp(sg, si, mi, sem_nr, modul_name, kurs_name),
                 ret |-> Len(kurse1) < Len(kurse0)]

(* ------------------ core.py: the weighted averages -------------------- *)

\* A call's outcome: the value returned, or the exception raised.
Ergebnis(w) == [ok |-> TRUE, wert |-> w]
Ausnahme(e) == [ok |-> FALSE, wert |-> e]

\* ---------------------------------------------------------------------------
\* Python floats.  A float is a binary number of 53 significant bits; every
\* operation gives the float nearest to the exact result, a tie going to the
\* one whose last bit is 0.  The model keeps a float exactly, as the natural
\* number of 2^(-75)s it is worth, and that number as the sequence of its
\* digits to the base 2^15, lowest digit first (<<>> is 0).  Floats between
\* 2^(-22) and 2^15 are covered, which is far more than grades, ECTS and
\* their sums need.
\* ---------------------------------------------------------------------------

Basis == 2^15

RECURSIVE Gross(_)
\* The digits of a natural number.
Gross(n) == IF n = 0 THEN <<>> ELSE <<n % Basis>> \o Gross(n \div Basis)

RECURSIVE Klein(_)
\* The natural number of a sequence of digits.
Klein(a) == IF a = <<>> THEN 0 ELSE Head(a) + Basis * Klein(Tail(a))

RECURSIVE Normal(_)
\* The digits without zeros at the high end.
Normal(a) ==
    IF a = <<>> THEN <<>>
    ELSE IF a[Len(a)] = 0 THEN Normal(SubSeq(a, 1, Len(a) - 1))
    ELSE a

RECURSIVE MalKlein(_, _, _)
\* a * k + uebertrag, for k and uebertrag below Basis.
MalKlein(a, k, uebertrag) ==
    IF a = <<>> THEN Gross(uebertrag)
    ELSE LET v == Head(a) * k + uebertrag
         IN  <<v % Basis>> \o MalKlein(Tail(a), k, v \div Basis)

RECURSIVE Plus(_, _, _)
\* a + b + uebertrag.
Plus(a, b, uebertrag) ==
    IF a = <<>> /\ b = <<>> THEN Gross(uebertrag)
    ELSE LET x == IF a = <<>> THEN 0 ELSE Head(a)
             y == IF b = <<>> THEN 0 ELSE Head(b)
             v == x + y + uebertrag
         IN  <<v % Basis>>
             \o Plus(IF a = <<>> THEN <<>> ELSE Tail(a),
                     IF b = <<>> THEN <<>> ELSE Tail(b), v \div Basis)

RECURSIVE DurchKlein(_, _)
\* Quotient q and remainder r of a by d, for 0 < d <= Basis.
DurchKlein(a, d) ==
    IF a = <<>> THEN [q |-> <<>>, r |-> 0]
    ELSE LET oben == DurchKlein(Tail(a), d)
             v    == oben.r * Basis + Head(a)
         IN  [q |-> <<v \div d>> \o oben.q, r |-> v % d]

\* The number of binary digits of a, a without zeros at the high end.
Bits(a) ==
    IF a = <<>> THEN 0
    ELSE 15 * (Len(a) - 1)
         + (CHOOSE k \in 1..15 : 2^(k-1) <= a[Len(a)] /\ a[Len(a)] < 2^k)

\* a + e for a fraction e below 1, rounded to a multiple of 2^j (j > 0): the
\* nearest one, a tie going to the even multiple.  Of e only mehr is known,
\* whether it is more than 0.  Digit w + 1 holds the bit worth 2^j and
\* digit wh + 1 the one worth half of that.
AufVielfaches(a, mehr, j) ==
    LET w  == j \div 15
        b  == j % 15
        wh == (j - 1) \div 15
        bh == (j - 1) % 15
        halb == wh < Len(a) /\ (a[wh + 1] \div 2^bh) % 2 = 1
        rest == \/ mehr
                \/ wh < Len(a) /\ a[wh + 1] % 2^bh # 0
                \/ \E i \in 1..wh : i <= Len(a) /\ a[i] # 0
        ungerade == w < Len(a) /\ (a[w + 1] \div 2^b) % 2 = 1
        ab == [i \in 1..Len(a) |->
                 IF i <= w THEN 0
                 ELSE IF i = w + 1 THEN a[i] - (a[i] % 2^b)
                 ELSE a[i]]
    IN  IF halb /\ (rest \/ ungerade)
        THEN Plus(ab, [i \in 1..(w + 1) |-> IF i = w + 1 THEN 2^b ELSE 0], 0)
        ELSE ab

\* The float nearest to a / d, for 0 < d <= Basis: the quotient rounded to
\* its 53 highest binary digits.
Float(a, d) ==
    LET t == IF d = 1 THEN [q |-> a, r |-> 0] ELSE DurchKlein(a, d)
        q == Normal(t.q)
        j == Bits(q) - 53
    IN  IF j <= 0 THEN q ELSE AufVielfaches(q, t.r # 0, j)

\* The float of the decimal literal z / n of a natural number z.
float(z, n) == Float([i \in 1..5 |-> 0] \o Gross(z), n)

\* The float operations x * k, x + y and x / k, k a natural number.
float_mal(x, k) == Float(MalKlein(x, k, 0), 1)
float_plus(x, y) == Float(Plus(x, y, 0), 1)
float_durch(x, k) == Float(x, k)

\* Python's round(x, ndigits) of a float x >= 0, as the integer number of
\* 1/m with m = 10^ndigits: the decimal of ndigits digits nearest to the
\* exact value of the float, a tie going to the even one.
round(x, m) ==
    LET r == AufVielfaches(MalKlein(x, m, 0), FALSE, 75)
    IN  Klein(SubSeq(r, 6, Len(r)))

RECURSIVE Verkette(_)
\* The concatenation of a sequence of sequences.
Verkette(ss) == IF ss = <<>> THEN <<>> ELSE Head(ss) \o Verkette(Tail(ss))

\* Every Kurs of the tree, in the order of the loops
\* "for semester ... for modul ... for kurs".
AlleKurse(sg) ==
    Verkette([si \in 1..Len(sg.semester) |->
        Verkette([mi \in 1..Len(sg.semester[si].module) |->
            sg.semester[si].module[mi].kurse])])

RECURSIVE SummeNoteMalEcts(_)
\* sum(note * ects) over a sequence of graded courses, in tenths.
SummeNoteMalEcts(ks) ==
    IF ks = <<>> THEN 0
    ELSE Head(ks).leistung.note[1] * Head(ks).ects + SummeNoteMalEcts(Tail(ks))

RECURSIVE SummeEcts(_)
SummeEcts(ks) == IF ks = <<>> THEN 0 ELSE Head(ks).ects + SummeEcts(Tail(ks))

Benotete(ks) == SelectSeq(ks, LAMBDA k : k.leistung.note # None)

\* Modul.ects
Modul_ects(modul) == SummeEcts(modul.kurse)

\* Modul.durchschnitt: None, or the quotient <<sum(n * e), sum(e)>> (in
\* tenths, not rounded); the division by sum(e) = 0 raises.
Modul_durchschnitt(modul) ==
    LET werte == Benotete(modul.kurse)
    IN  IF werte = <<>> THEN Ergebnis(None)
        ELSE IF SummeEcts(werte) = 0 THEN Ausnahme("ZeroDivisionError")
        ELSE Ergebnis(Some(<<SummeNoteMalEcts(werte), SummeEcts(werte)>>))

RECURSIVE GewichtetePunkte(_, _)
\* total_weighted_points += kurs.note * kurs.ects over a sequence of graded
\* courses in their order, from the float punkte on; the note is the float of
\* its decimal in tenths.
GewichtetePunkte(ks, punkte) ==
    IF ks = <<>> THEN punkte
    ELSE GewichtetePunkte(Tail(ks),
             float_plus(punkte,
                        float_mal(float(Head(ks).leistung.note[1], 10), Head(ks).ects)))

\* The average with every graded Kurs given the same weight.
durchschnitt_ungewichtet(sg) ==
    LET werte == Benotete(AlleKurse(sg))
    IN  IF werte = <<>> THEN None
        ELSE Some(round(float_durch(GewichtetePunkte([i \in 1..Len(werte) |->
                            [werte[i] EXCEPT !.ects = 1]], <<>>), Len(werte)), 100))

\* Studiengang.durchschnitt: None, or the average in hundredths.
durchschnitt(sg) ==
    LET werte == Benotete(AlleKurse(sg))
        total_weighted_points == GewichtetePunkte(werte, <<>>)
        total_ects == SummeEcts(werte)
    IN  IF total_ects = 0 THEN None
        ELSE Some(round(float_durch(total_weighted_points, total_ects), 100))

(* --------------- routes/main.py: compute_dashboard_metrics ------------ *)

\* (art or "").strip().lower(), on the assessment types of the model.
strip_lower(art) ==
    CASE art = "Klausur" -> "klausur"
      [] art = " KLAUSUR " -> "klausur"
      [] art = "Hausarbeit" -> "hausarbeit"
      [] art = "MÃ¼ndlich" -> "mã¼ndlich"
      [] OTHER -> art

\* A Kurs whose duration is taken: both dates set, and completed.
HatDauer(kurs) ==
    kurs.startdatum # None /\ kurs.leistung.datum # None /\ ist_abgeschlossen(kurs)

Dauer(kurs) == kurs.leistung.datum[1] - kurs.startdatum[1]

RECURSIVE SummeDauer(_)
SummeDauer(ks) == IF ks = <<>> THEN 0 ELSE Dauer(Head(ks)) + SummeDauer(Tail(ks))

\* round(sum(durations) / len(durations)) if durations else None.  The
\* quotient of two ints is the float nearest to it; a negative sum gives the
\* negative of what its positive gives, in the division and in round.
MittlereDauer(ks) ==
    LET summe == SummeDauer(ks)
    IN  IF ks = <<>> THEN None
        ELSE IF summe < 0 THEN Some(0 - round(float(0 - summe, Len(ks)), 1))
        ELSE Some(round(float(summe, Len(ks)), 1))

\* compute_dashboard_metrics; excell_ratio is the quotient <<ones, graded>>.
compute_dashboard_metrics(sg, targets) ==
    LET kurse == AlleKurse(sg)
        graded == Benotete(kurse)
        ones == Len(SelectSeq(graded, LAMBDA k : k.leistung.note[1] = 10))
        passed == SelectSeq(kurse, LAMBDA k : ist_bestanden(k))
        ects_earned == SummeEcts(passed)
        mit_dauer == SelectSeq(kurse, HatDauer)
        klausur_durations ==
            SelectSeq(mit_dauer, LAMBDA k : strip_lower(k.leistung.art) = "klausur")
        sonstige_durations ==
            SelectSeq(mit_dauer, LAMBDA k : strip_lower(k.leistung.art) # "klausur")
    IN  [ total_courses |-> Len(kurse),
          graded_courses |-> Len(graded),
          completed_courses |-> Len(passed),
          ects_earned |-> ects_earned,
          ects_total |-> targets.total_ects,
          ects_progress |-> IF targets.total_ects > 0
                            THEN round(float_mal(float(ects_earned,
                                                 targets.total_ects), 100), 1)
                            ELSE 0,
          exams_total |-> targets.total_exams,
          ones |-> ones,
          avg_klausur_days |-> MittlereDauer(klausur_durations),
          avg_sonstige_days |-> MittlereDauer(sonstige_durations),
          excell_ratio |-> IF Len(graded) > 0 THEN <<ones, Len(graded)>> ELSE <<0, 1>>,
          avg |-> durchschnitt(sg) ]

(* --------------------------- goals.py: rules -------------------------- *)

\* A rule object: its class name and its one limit (max_jahre in years,
\* max_durchschnitt in tenths of a grade, mindestanteil in percent,
\* max_tage in days); for a KursdauerZiel the pair <<max_tage_klausur,
\* max_tage_sonstige>>.
Ziel(klasse, wert) == [klasse |-> klasse, wert |-> wert]

\* Studienzeitziel.pruefe: (today - startdatum).days / 365.25 <= max_jahre
Studienzeitziel_pruefe(max_jahre, sg, today) ==
    4 * (today - sg.startdatum) <= 1461 * max_jahre

\* round(avg, 1) of an average in hundredths, in tenths; avg is the float of
\* that decimal, the result of round(..., 2).
round1(avg) == round(float(avg, 100), 10)

\* Notenziel.pruefe; max_durchschnitt has one decimal, so rounding it to one
\* decimal changes nothing.
Notenziel_pruefe(max_durchschnitt, sg) ==
    LET avg == durchschnitt(sg)
    IN  IF avg = None THEN FALSE
        ELSE round1(avg[1]) <= max_durchschnitt

\* ExzellenzZiel.pruefe: gesamt > 0 and einsen / gesamt >= mindestanteil
ExzellenzZiel_pruefe(mindestanteil, sg) ==
    LET benotet == Benotete(AlleKurse(sg))
        gesamt == Len(benotet)
        einsen == Len(SelectSeq(benotet, LAMBDA k : k.leistung.note[1] = 10))
    IN  gesamt > 0 /\ 100 * einsen >= mindestanteil * gesamt

\* _KursdauerBasisZiel.pruefe failing from delta >= max_tage on.
KursdauerBasisZiel_pruefe_ab_gleich(max_tage, klausur, sg) ==
    LET kurse == AlleKurse(sg)
    IN  \A i \in 1..Len(kurse) :
            \/ kurse[i].startdatum = None
            \/ kurse[i].leistung.datum = None
            \/ ~ist_abgeschlossen(kurse[i])
            \/ (strip_lower(kurse[i].leistung.art) = "klausur") # klausur
            \/ Dauer(kurse[i]) < max_tage

\* _KursdauerBasisZiel.pruefe, the predicate being art == "klausur"
\* (klausur = TRUE) or art != "klausur" (klausur = FALSE).
KursdauerBasisZiel_pruefe(max_tage, klausur, sg) ==
    LET kurse == AlleKurse(sg)
    IN  \A i \in 1..Len(kurse) :
            \/ kurse[i].startdatum = None
            \/ kurse[i].leistung.datum = None
            \/ ~ist_abgeschlossen(kurse[i])
            \/ (strip_lower(kurse[i].leistung.art) = "klausur") # klausur
            \/ Dauer(kurse[i]) <= max_tage

\* KursdauerZiel.pruefe: the exam rule and the other rule both pass.
KursdauerZiel_pruefe(max_tage_klausur, max_tage_sonstige, sg) ==
    /\ KursdauerBasisZiel_pruefe(max_tage_klausur, TRUE, sg)
    /\ KursdauerBasisZiel_pruefe(max_tage_sonstige, FALSE, sg)

\* z.pruefe(studiengang), by the class of z.
pruefe(z, sg, today) ==
    CASE z.klasse = "Studienzeitziel" -> Studienzeitziel_pruefe(z.wert, sg, today)
      [] z.klasse = "Notenziel" -> Notenziel_pruefe(z.wert, sg)
      [] z.klasse = "ExzellenzZiel" -> ExzellenzZiel_pruefe(z.wert, sg)
      [] z.klasse = "KursdauerKlausurZiel" -> KursdauerBasisZiel_pruefe(z.wert, TRUE, sg)
      [] z.klasse = "KursdauerSonstigeZiel" -> KursdauerBasisZiel_pruefe(z.wert, FALSE, sg)
      [] z.klasse = "KursdauerZiel" -> KursdauerZiel_pruefe(z.wert[1], z.wert[2], sg)

(* ------------- services.py: GoalFactory and GoalEvaluator ------------- *)

\* A dict is the sequence of its <<key, value>> pairs in insertion order,
\* the keys distinct.
Has(d, key) == \E i \in 1..Len(d) : d[i][1] = key
Get(d, key, default) ==
    IF Has(d, key) THEN d[CHOOSE i \in 1..Len(d) : d[i][1] = key][2] ELSE default

\* GoalFactory._map[key](**val) for the keys of step 3; the parameter
\* without a default is always given.
Aus_map(key, val) ==
    CASE key = "studienzeitziel" -> Ziel("Studienzeitziel", Get(val, "max_jahre", 0))
      [] key = "notenziel" -> Ziel("Notenziel", Get(val, "max_durchschnitt", 0))
      [] key = "exzellenzziel" -> Ziel("ExzellenzZiel", Get(val, "mindestanteil", 10))

RECURSIVE RestlicheZiele(_)
\* Step 3 of from_config: the loop over zcfg.items().
RestlicheZiele(zcfg) ==
    IF zcfg = <<>> THEN <<>>
    ELSE LET key == Head(zcfg)[1]
             val == Head(zcfg)[2]
         IN  (IF key \in {"studienzeitziel", "notenziel", "exzellenzziel"}
              THEN <<Aus_map(key, val)>> ELSE <<>>)
             \o RestlicheZiele(Tail(zcfg))

\* Step 1 of from_config: the rules of the explicit keys.
ExpliziteZiele(zcfg) ==
    (IF Has(zcfg, "kursdauer_klausur_ziel")
     THEN << Ziel("KursdauerKlausurZiel",
                  Get(Get(zcfg, "kursdauer_klausur_ziel", <<>>), "max_tage", 21)) >>
     ELSE <<>>)
    \o (IF Has(zcfg, "kursdauer_sonstige_ziel")
        THEN << Ziel("KursdauerSonstigeZiel",
                     Get(Get(zcfg, "kursdauer_sonstige_ziel", <<>>), "max_tage", 42)) >>
        ELSE <<>>)

\* Step 2 of from_config: the two rules the legacy key fans out to.
LegacyZiele(zcfg) ==
    LET kd == Get(zcfg, "kursdauerziel", <<>>)
    IN  << Ziel("KursdauerKlausurZiel", Get(kd, "max_tage_klausur", 21)),
           Ziel("KursdauerSonstigeZiel", Get(kd, "max_tage_sonstige", 42)) >>

\* from_config with the legacy key fanned out whenever it is present.
from_config_legacy_immer(zcfg) ==
    ExpliziteZiele(zcfg)
    \o (IF Has(zcfg, "kursdauerziel") THEN LegacyZiele(zcfg) ELSE <<>>)
    \o RestlicheZiele(zcfg)

\* GoalFactory.from_config, on the goals section zcfg of the configuration.
from_config(zcfg) ==
    LET explicit_klausur == Has(zcfg, "kursdauer_klausur_ziel")
        explicit_sonstige == Has(zcfg, "kursdauer_sonstige_ziel")
    IN  ExpliziteZiele(zcfg)
        \o (IF Has(zcfg, "kursdauerziel") /\ ~(explicit_klausur /\ explicit_sonstige)
            THEN LegacyZiele(zcfg) ELSE <<>>)
        \o RestlicheZiele(zcfg)

\* GoalEvaluator.bewerte: the dict comprehension keyed by class name; a later
\* rule of a class overwrites the entry of an earlier one.
bewerte(zs, sg, today) ==
    LET klassen == { zs[i].klasse : i \in 1..Len(zs) }
        letzter(k) == CHOOSE i \in 1..Len(zs) :
                          /\ zs[i].klasse = k
                          /\ \A j \in 1..Len(zs) : zs[j].klasse = k => j <= i
    IN  [k \in klassen |-> pruefe(zs[letzter(k)], sg, today)]

(* ------------------------- views of the tree -------------------------- *)

\* Positions <<si, mi>> of the Modules and <<si, mi, ki>> of the Courses.
ModulPositionen(sg) ==
    UNION { { <<si, mi>> : mi \in 1..Len(sg.semester[si].module) } :
            si \in 1..Len(sg.semester) }

KursPositionen(sg) ==
    UNION { { <<p[1], p[2], ki>> :
                ki \in 1..Len(sg.semester[p[1]].module[p[2]].kurse) } :
            p \in ModulPositionen(sg) }

KursAn(sg, p) == sg.semester[p[1]].module[p[2]].kurse[p[3]]

AnzahlKurse(sg) == Cardinality(KursPositionen(sg))

AnzahlModule(sg) == Cardinality(ModulPositionen(sg))

\* A Kurs some record_* call has written to.
Bewertet(kurs) ==
    kurs.leistung.note # None \/ kurs.leistung.bestanden # None
        \/ kurs.leistung.datum # None

AnzahlBewertet(sg) ==
    Cardinality({ p \in KursPositionen(sg) : Bewertet(KursAn(sg, p)) })

\* sg with the Kurs at position p replaced by k.
MitKurs(sg, p, k) == [sg EXCEPT !.semester[p[1]].module[p[2]].kurse[p[3]] = k]

(* ------------------ routes/main.py: the POST handlers ----------------- *)
(* A handler loads the saved Program, works on its own copy and, unless   *)
(* it returns early, saves it.  sg is the Program the handler loaded; the *)
(* value is the Program it ends with and whether it calls                 *)
(* _save_studiengang.                                                     *)

Antwort(sg, save) == [studiengang |-> sg, save |-> save]

\* add_modul (POST /add_modul)
post_add_modul(sg, sem_nr, modul_name) == Antwort(add_modul(sg, sem_nr, modul_name).sg, TRUE)

\* add_kurs (POST /add_kurs).  The handler's own loop over all semesters
\* keeps the last Semester numbered sem_nr that has a Modul of the name;
\* without one add_modul finds or creates the Modul.
post_add_kurs(sg, sem_nr, modul_name, kurs_name, ects, art, start_dt) ==
    LET treffer == { si \in 1..Len(sg.semester) :
                       /\ sg.semester[si].nummer = sem_nr
                       /\ _find_modul(sg.semester[si], modul_name) # 0 }
        si == CHOOSE i \in treffer : \A j \in treffer : j <= i
        r  == add_modul(sg, sem_nr, modul_name)
    IN  IF treffer # {}
        THEN Antwort(add_kurs(sg, si, _find_modul(sg.semester[si], modul_name),
                              kurs_name, ects, art, start_dt).sg, TRUE)
        ELSE Antwort(add_kurs(r.sg, r.ret[1], r.ret[2],
                              kurs_name, ects, art, start_dt).sg, TRUE)

\* record_grade (POST /record_grade): note is the parsed note field, None
\* when it is empty, and datum the parsed date field, None when it is empty.
\* Without the Kurs the handler returns before the save; with it the
\* Program is saved even when nothing was recorded.
post_record_grade(sg, sem_nr, modul_name, kurs_name, passed_without_grade, note, datum) ==
    LET pos == find_kurs(sg, sem_nr, modul_name, kurs_name)
    IN  IF pos = None THEN Antwort(sg, FALSE)
        ELSE LET kurs == KursAn(sg, pos)
                 neu  == IF passed_without_grade THEN record_passed(kurs, TRUE)
                         ELSE IF note # None THEN record_grade(kurs, note[1])
                         ELSE kurs
             IN  Antwort(MitKurs(sg, pos,
                             IF (passed_without_grade \/ note # None) /\ datum # None
                             THEN [neu EXCEPT !.leistung.datum = datum]
                             ELSE neu),
                         TRUE)

\* edit_kurs (POST /edit_kurs): the Kurs found under the original key, moved
\* by move_kurs when the Semester or the Modul changes (it is then the last
\* Kurs of the destination Modul), gets the six form values; the
\* passed-without-grade flag is left as it is.  Without the Kurs the handler
\* returns before the save.
edit_kurs(sg, original_sem_nr, original_modul_name, original_kurs_name, new_sem_nr, new_modul_name, new_kurs_name, new_ects, new_art, new_startdatum, new_datum, new_note) ==
    LET pos == find_kurs(sg, original_sem_nr, original_modul_name, original_kurs_name)
    IN  IF pos = None THEN Antwort(sg, FALSE)
        ELSE LET verlegt == original_sem_nr # new_sem_nr
                                \/ original_modul_name # new_modul_name
                 sg1 == IF verlegt
                        THEN move_kurs(sg, original_sem_nr, original_modul_name,
                                       original_kurs_name, new_sem_nr, new_modul_name).sg
                        ELSE sg
                 si  == _find_semester(sg1, new_sem_nr)
                 mi  == _find_modul(sg1.semester[si], new_modul_name)
                 ort == IF verlegt
                        THEN <<si, mi, Len(sg1.semester[si].module[mi].kurse)>>
                        ELSE pos
             IN  Antwort(MitKurs(sg1, ort,
                             [KursAn(sg1, ort) EXCEPT !.name = new_kurs_name,
                                                      !.ects = new_ects,
                                                      !.startdatum = new_startdatum,
                                                      !.leistung.art = new_art,
                                                      !.leistung.datum = new_datum,
                                                      !.leistung.note = new_note]),
                         TRUE)

\* delete_kurs (POST /delete_kurs): saved only when a Kurs was deleted.  The
\* handler's Program has been through the clean-up of delete_kurs either way.
post_delete_kurs(sg, sem_nr, modul_name, kurs_name) ==
    LET r == delete_kurs(sg, sem_nr, modul_name, kurs_name)
    IN  Antwort(r.sg, r.ret)

\* seed_demo (GET /seed): the demo Program, built without a load.  The dates
\* are 2025-04-01, 2025-07-20, 2025-07-01 and 2025-07-25.
seed_demo ==
    LET s0 == Studiengang("Softwareentwicklung", Startdatum)
        m  == add_modul(s0, 1, "Bachelormodul")
        k1 == add_kurs(m.sg, m.ret[1], m.ret[2], "Thesis", 9, "Hausarbeit", None)
        k2 == add_kurs(k1.sg, m.ret[1], m.ret[2], "Kolloquium", 1, "MÃ¼ndlich", None)
        n1 == record_grade(KursAn(k2.sg, k1.ret), 17)
        n2 == record_grade(KursAn(k2.sg, k2.ret), 13)
        s1 == MitKurs(k2.sg, k1.ret,
                  [n1 EXCEPT !.startdatum = Some(483), !.leistung.datum = Some(593)])
    IN  Antwort(MitKurs(s1, k2.ret,
                    [n2 EXCEPT !.startdatum = Some(574), !.leistung.datum = Some(598)]),
                TRUE)

(* ------------- services.py: JsonPersistence and the file -------------- *)
(* The file studiengang.json: whether it exists, the Program its text     *)
(* parses to (None when json.loads raises on it) and the number of its    *)
(* bytes.  The values JsonPersistence.save writes are read back by        *)
(* JsonPersistence.load as they were.                                      *)

KeineDatei == [vorhanden |-> FALSE, inhalt |-> None, laenge |-> 0]

\* Characters of a non-negative integer in decimal.
RECURSIVE Ziffern(_)
Ziffern(n) == IF n < 10 THEN 1 ELSE 1 + Ziffern(n \div 10)

RECURSIVE Summe(_)
Summe(f) == IF f = <<>> THEN 0 ELSE Head(f) + Summe(Tail(f))

\* Characters of a dict printed by json.dumps(indent=2) on a line indented
\* by ind: schluessel are the lengths of its keys, werte of its values.
dict_laenge(ind, schluessel, werte) ==
    1 + Summe([i \in 1..Len(werte) |-> 1 + (ind + 2) + (schluessel[i] + 2) + 2 + werte[i]])
      + (Len(werte) - 1) + 1 + ind + 1

\* Characters of a list printed on a line indented by ind; "[]" when empty.
list_laenge(ind, werte) ==
    IF werte = <<>> THEN 2
    ELSE 1 + Summe([i \in 1..Len(werte) |-> 1 + (ind + 2) + werte[i]])
           + (Len(werte) - 1) + 1 + ind + 1

\* Bytes of a string in the file: one for each character, and two for each
\* of the two characters after the M of the demo's assessment type, which
\* has 9 characters.
utf8_laenge(s) == IF s = "MÃ¼ndlich" THEN 11 ELSE Len(s)

\* Bytes of a string with its quotes, of an isoformat date or null, of the
\* float of an integer ("5.0"), of a grade in tenths ("1.3") or null, of
\* true, false or null.
str_laenge(s) == utf8_laenge(s) + 2
datum_laenge(d) == IF d = None THEN 4 ELSE 12
ects_laenge(e) == Ziffern(e) + 2
note_laenge(n) == IF n = None THEN 4 ELSE Ziffern(n[1] \div 10) + 2
bool_laenge(b) == IF b = None THEN 4 ELSE IF b[1] THEN 4 ELSE 5

kurs_laenge(kurs) ==
    dict_laenge(12, <<4, 4, 10, 8>>,
        << str_laenge(kurs.name), ects_laenge(kurs.ects), datum_laenge(kurs.startdatum),
           dict_laenge(14, <<3, 4, 5, 9>>,
               << str_laenge(kurs.leistung.art), note_laenge(kurs.leistung.note),
                  datum_laenge(kurs.leistung.datum),
                  bool_laenge(kurs.leistung.bestanden) >>) >>)

modul_laenge(modul) ==
    dict_laenge(8, <<4, 5>>,
        << str_laenge(modul.name),
           list_laenge(10, [i \in 1..Len(modul.kurse) |-> kurs_laenge(modul.kurse[i])]) >>)

semester_laenge(semester) ==
    dict_laenge(4, <<6, 6>>,
        << Ziffern(semester.nummer),
           list_laenge(6, [i \in 1..Len(semester.module) |->
                               modul_laenge(semester.module[i])]) >>)

\* JsonPersistence.save up to json.dumps: the text of a Program.
dumps(sg) ==
    [vorhanden |-> TRUE, inhalt |-> Some(sg),
     laenge |-> dict_laenge(0, <<4, 10, 8>>,
                    << str_laenge(sg.name), 12,
                       list_laenge(2, [i \in 1..Len(sg.semester) |->
                                           semester_laenge(sg.semester[i])]) >>)]

\* The text seed_demo saves: ects=9 and ects=1 are ints there and are written
\* as "9" and "1", two characters shorter each than the floats a load makes
\* of them.
seed_dumps(sg) == [dumps(sg) EXCEPT !.laenge = @ - 4]

\* Path.write_text, first half: open(path, "w") creates the file or cuts it
\* to no characters.
open_w(d) == [vorhanden |-> TRUE, inhalt |-> None, laenge |-> 0]

\* Path.write_text, second half: the text is written from the first
\* character on.  Characters another writer has put behind its end since
\* the file was opened stay, and the file no longer parses.
write(d, text) ==
    IF d.laenge <= text.laenge THEN text
    ELSE [vorhanden |-> TRUE, inhalt |-> None, laenge |-> d.laenge]

\* _load_studiengang
_load_studiengang(d) ==
    IF ~d.vorhanden THEN Ergebnis(Studiengang("Softwareentwicklung", Startdatum))
    ELSE IF d.inhalt = None THEN Ausnahme("JSONDecodeError")
    ELSE Ergebnis(d.inhalt[1])

(* ------------------------------ actions ------------------------------- *)
(* last is the log of the last call: its name, its result and its         *)
(* arguments (not the lookup keys of move_kurs and delete_kurs).  A Kurs   *)
(* argument is logged as its position and its value when the call began.   *)


AddModul ==
    \E sem_nr \in SemNummern, modul_name \in ModulNamen :
        LET r == add_modul(studiengang, sem_nr, modul_name)
        IN  /\ AnzahlModule(r.sg) <= MaxModule
            /\ studiengang' = r.sg
            /\ last' = [op |-> "add_modul", args |-> <<sem_nr, modul_name>>, ret |-> r.ret]
            /\ UNCHANGED <<ziele, heute, datei, anfragen>>

AddKurs ==
    /\ AnzahlKurse(studiengang) < MaxKurse
    /\ \E p \in ModulPositionen(studiengang), name \in KursNamen, kp \in KursParameter :
        LET r == add_kurs(studiengang, p[1], p[2], name, kp.ects, kp.art, kp.startdatum)
        IN  /\ studiengang' = r.sg
            /\ last' = [op |-> "add_kurs", args |-> <<p, name, kp>>, ret |-> r.ret]
            /\ UNCHANGED <<ziele, heute, datei, anfragen>>

MoveKurs ==
    \E from_sem \in SemNummern, from_mod \in ModulNamen, kurs_name \in KursNamen,
       to_sem \in SemNummern, to_mod \in ModulNamen :
        LET r == move_kurs(studiengang, from_sem, from_mod, kurs_name, to_sem, to_mod)
        IN  /\ AnzahlModule(r.sg) <= MaxModule
            /\ studiengang' = r.sg
            /\ last' = [op |-> "move_kurs", args |-> <<>>, ret |-> r.ret]
            /\ UNCHANGED <<ziele, heute, datei, anfragen>>

DeleteKurs ==
    \E sem_nr \in SemNummern, modul_name \in ModulNamen, kurs_name \in KursNamen :
        LET r == delete_kurs(studiengang, sem_nr, modul_name, kurs_name)
        IN  /\ studiengang' = r.sg
            /\ last' = [op |-> "delete_kurs", args |-> <<>>, ret |-> r.ret]
            /\ UNCHANGED <<ziele, heute, datei, anfragen>>

\* The three record_* calls on the Kurs at position p.
RecordGradeAn(p, note) ==
    /\ studiengang' = MitKurs(studiengang, p, record_grade(KursAn(studiengang, p), note))
    /\ last' = [op |-> "record_grade", args |-> <<p, KursAn(studiengang, p), note>>,
                ret |-> None]
    /\ UNCHANGED <<ziele, heute, datei, anfragen>>

RecordPassedAn(p, bestanden) ==
    /\ studiengang' =
           MitKurs(studiengang, p, record_passed(KursAn(studiengang, p), bestanden))
    /\ last' = [op |-> "record_passed", args |-> <<p, KursAn(studiengang, p), bestanden>>,
                ret |-> None]
    /\ UNCHANGED <<ziele, heute, datei, anfragen>>

RecordGradeAndDateAn(p, note, datum) ==
    /\ studiengang' =
           MitKurs(studiengang, p,
                   record_grade_and_date(KursAn(studiengang, p), note, datum))
    /\ last' = [op |-> "record_grade_and_date",
                args |-> <<p, KursAn(studiengang, p), note, datum>>, ret |-> None]
    /\ UNCHANGED <<ziele, heute, datei, anfragen>>

OptNoten == {None} \cup {Some(n) : n \in Noten}
OptDaten == {None} \cup {Some(d) : d \in Daten}

(* ----------------------- registry specification ----------------------- *)
(* From the empty Program, every call of the CourseManager; a record_*     *)
(* call is made while fewer than MaxBewertet courses carry an outcome.     *)

Init ==
    /\ studiengang = Studiengang("Softwareentwicklung", Startdatum)
    /\ ziele = <<>>
    /\ heute = Startdatum
    /\ last = [op |-> "init", args |-> <<>>, ret |-> None]
    /\ datei = KeineDatei
    /\ anfragen = <<>>

RecordGrade ==
    /\ AnzahlBewertet(studiengang) < MaxBewertet
    /\ \E p \in KursPositionen(studiengang), note \in Noten : RecordGradeAn(p, note)

RecordPassed ==
    /\ AnzahlBewertet(studiengang) < MaxBewertet
    /\ \E p \in KursPositionen(studiengang), bestanden \in BOOLEAN :
           RecordPassedAn(p, bestanden)

RecordGradeAndDate ==
    /\ AnzahlBewertet(studiengang) < MaxBewertet
    /\ \E p \in KursPositionen(studiengang), note \in OptNoten, datum \in OptDaten :
           RecordGradeAndDateAn(p, note, datum)

Next ==
    \/ AddModul
    \/ AddKurs
    \/ MoveKurs
    \/ DeleteKurs
    \/ RecordGrade
    \/ RecordPassed
    \/ RecordGradeAndDate

Spec == Init /\ [][Next]_vars

(* ------------------- outcome-recording specification ------------------ *)
(* One Modul with the courses "A" and "B"; every sequence of record_*      *)
(* calls on them.                                                          *)

InitLeistung ==
    \E ka \in KursParameter, kb \in KursParameter :
        LET s0 == add_modul(Studiengang("Softwareentwicklung", Startdatum), 1, "M")
            s1 == add_kurs(s0.sg, s0.ret[1], s0.ret[2], "A", ka.ects, ka.art, ka.startdatum)
            s2 == add_kurs(s1.sg, s0.ret[1], s0.ret[2], "B", kb.ects, kb.art, kb.startdatum)
        IN  /\ studiengang = s2.sg
            /\ ziele = <<>>
            /\ heute = Startdatum
            /\ last = [op |-> "init", args |-> <<>>, ret |-> None]
            /\ datei = KeineDatei
            /\ anfragen = <<>>

LeistungRecordGrade ==
    \E p \in KursPositionen(studiengang), note \in Noten : RecordGradeAn(p, note)

LeistungRecordPassed ==
    \E p \in KursPositionen(studiengang), bestanden \in BOOLEAN :
        RecordPassedAn(p, bestanden)

LeistungRecordGradeAndDate ==
    \E p \in KursPositionen(studiengang), note \in OptNoten, datum \in OptDaten :
        RecordGradeAndDateAn(p, note, datum)

NextLeistung ==
    \/ LeistungRecordGrade
    \/ LeistungRecordPassed
    \/ LeistungRecordGradeAndDate

SpecLeistung == InitLeistung /\ [][NextLeistung]_vars

(* --------------------- restructuring specification ------------------- *)
(* The registry with move_kurs and delete_kurs logged with their          *)
(* arguments, and record_grade as the one outcome-recording call.         *)

UmbauMoveKurs ==
    \E from_sem \in SemNummern, from_mod \in ModulNamen, kurs_name \in KursNamen,
       to_sem \in SemNummern, to_mod \in ModulNamen :
        LET r == move_kurs(studiengang, from_sem, from_mod, kurs_name, to_sem, to_mod)
        IN  /\ AnzahlModule(r.sg) <= MaxModule
            /\ studiengang' = r.sg
            /\ last' = [op |-> "move_kurs",
                        args |-> <<from_sem, from_mod, kurs_name, to_sem, to_mod>>,
                        ret |-> r.ret]
            /\ UNCHANGED <<ziele, heute, datei, anfragen>>

UmbauDeleteKurs ==
    \E sem_nr \in SemNummern, modul_name \in ModulNamen, kurs_name \in KursNamen :
        LET r == delete_kurs(studiengang, sem_nr, modul_name, kurs_name)
        IN  /\ studiengang' = r.sg
            /\ last' = [op |-> "delete_kurs", args |-> <<sem_nr, modul_name, kurs_name>>,
                        ret |-> r.ret]
            /\ UNCHANGED <<ziele, heute, datei, anfragen>>

NextUmbau == AddModul \/ AddKurs \/ UmbauMoveKurs \/ UmbauDeleteKurs \/ RecordGrade

SpecUmbau == Init /\ [][NextUmbau]_vars

(* ------------------------ request specification ---------------------- *)
(* The POST requests that write the Program, served by threads that take  *)
(* no lock.  A request loads the file and works on its copy in one step   *)
(* (the handler action), opens the file for writing in a second and       *)
(* writes its text in a third; the steps of other requests come between.  *)
(* anfragen holds, for each request begun, the step it is at and the text  *)
(* it is about to write.  A request that saves is made when it saves at    *)
(* most MaxModule modules and at most MaxBewertet courses with an outcome; *)
(* GET /seed saves its demo Program whatever these bounds.  seed_demo also  *)
(* writes config.json, which is no part of the state here.  The log of     *)
(* calls is not kept.                                                      *)

\* Requests begun in one behaviour.
MaxAnfragen == 2

\* The (sem_nr, modul_name) pairs of the forms: two modules of Semester 1
\* and one of Semester 2.
Orte == { <<1, "M">>, <<1, "N">>, <<2, "M">> }

\* Saved Programs the requests start from, each as the handlers leave it:
\* no Semester, a Modul without courses, one Modul with one and with two
\* courses, a Kurs with a grade, and two courses in two semesters.
Gespeicherte ==
    LET leer == Studiengang("Softwareentwicklung", Startdatum)
        m    == post_add_modul(leer, 1, "M").studiengang
        a    == post_add_kurs(leer, 1, "M", "A", 5, "Klausur", None).studiengang
        ab   == post_add_kurs(a, 1, "M", "B", 5, "Klausur", None).studiengang
        a1   == post_record_grade(ab, 1, "M", "A", FALSE, Some(10), Some(30)).studiengang
        a2   == post_add_kurs(a, 2, "M", "B", 0, "Hausarbeit", Some(9)).studiengang
    IN  { leer, m, a, ab, a1, a2 }

InitAnfragen ==
    /\ studiengang = Studiengang("Softwareentwicklung", Startdatum)
    /\ ziele = <<>>
    /\ heute = Startdatum
    /\ last = [op |-> "init", args |-> <<>>, ret |-> None]
    /\ datei \in {KeineDatei} \cup { dumps(sg) : sg \in Gespeicherte }
    /\ anfragen = <<>>

\* A request that has returned its redirect, and one that ended with the
\* exception of the load.
Beantwortet == [schritt |-> "redirect", text |-> None]
Abgebrochen == [schritt |-> "JSONDecodeError", text |-> None]

\* A request with the handler's answer a: at the save, or returned.
Begonnen(a) ==
    IF a.save THEN [schritt |-> "save", text |-> Some(dumps(a.studiengang))]
    ELSE Beantwortet

SeedDemo ==
    /\ Len(anfragen) < MaxAnfragen
    /\ anfragen' = Append(anfragen, [schritt |-> "save",
                                     text |-> Some(seed_dumps(seed_demo.studiengang))])
    /\ UNCHANGED <<studiengang, ziele, heute, last, datei>>

PostAddModul ==
    /\ Len(anfragen) < MaxAnfragen
    /\ \E o \in Orte :
        LET geladen == _load_studiengang(datei)
            a == post_add_modul(geladen.wert, o[1], o[2])
        IN  IF ~geladen.ok THEN anfragen' = Append(anfragen, Abgebrochen)
            ELSE /\ AnzahlModule(a.studiengang) <= MaxModule
                 /\ anfragen' = Append(anfragen, Begonnen(a))
    /\ UNCHANGED <<studiengang, ziele, heute, last, datei>>

PostAddKurs ==
    /\ Len(anfragen) < MaxAnfragen
    /\ \E o \in Orte, kurs_name \in KursNamen, kp \in KursParameter :
        LET geladen == _load_studiengang(datei)
            a == post_add_kurs(geladen.wert, o[1], o[2], kurs_name,
                               kp.ects, kp.art, kp.startdatum)
        IN  IF ~geladen.ok THEN anfragen' = Append(anfragen, Abgebrochen)
            ELSE /\ AnzahlKurse(geladen.wert) < MaxKurse
                 /\ AnzahlModule(a.studiengang) <= MaxModule
                 /\ anfragen' = Append(anfragen, Begonnen(a))
    /\ UNCHANGED <<studiengang, ziele, heute, last, datei>>

PostRecordGrade ==
    /\ Len(anfragen) < MaxAnfragen
    /\ \E o \in Orte, kurs_name \in KursNamen, passed_without_grade \in BOOLEAN,
          note \in OptNoten, datum \in OptDaten :
        LET geladen == _load_studiengang(datei)
            a == post_record_grade(geladen.wert, o[1], o[2], kurs_name,
                                   passed_without_grade, note, datum)
        IN  IF ~geladen.ok THEN anfragen' = Append(anfragen, Abgebrochen)
            ELSE /\ a.save => AnzahlBewertet(a.studiengang) <= MaxBewertet
                 /\ anfragen' = Append(anfragen, Begonnen(a))
    /\ UNCHANGED <<studiengang, ziele, heute, last, datei>>

EditKurs ==
    /\ Len(anfragen) < MaxAnfragen
    /\ \E original \in Orte, original_kurs_name \in KursNamen, o \in Orte,
          kurs_name \in KursNamen, kp \in KursParameter, datum \in OptDaten,
          note \in OptNoten :
        LET geladen == _load_studiengang(datei)
            a == edit_kurs(geladen.wert, original[1], original[2], original_kurs_name,
                           o[1], o[2], kurs_name, kp.ects, kp.art, kp.startdatum,
                           datum, note)
        IN  IF ~geladen.ok THEN anfragen' = Append(anfragen, Abgebrochen)
            ELSE /\ a.save => /\ AnzahlModule(a.studiengang) <= MaxModule
                               /\ AnzahlBewertet(a.studiengang) <= MaxBewertet
                 /\ anfragen' = Append(anfragen, Begonnen(a))
    /\ UNCHANGED <<studiengang, ziele, heute, last, datei>>

PostDeleteKurs ==
    /\ Len(anfragen) < MaxAnfragen
    /\ \E o \in Orte, kurs_name \in KursNamen :
        LET geladen == _load_studiengang(datei)
            a == post_delete_kurs(geladen.wert, o[1], o[2], kurs_name)
        IN  IF ~geladen.ok THEN anfragen' = Append(anfragen, Abgebrochen)
            ELSE anfragen' = Append(anfragen, Begonnen(a))
    /\ UNCHANGED <<studiengang, ziele, heute, last, datei>>

\* _save_studiengang, first step of a request at its save: the file is
\* opened for writing.
Oeffnen ==
    \E i \in 1..Len(anfragen) :
        /\ anfragen[i].schritt = "save"
        /\ datei' = open_w(datei)
        /\ anfragen' = [anfragen EXCEPT ![i].schritt = "write"]
        /\ UNCHANGED <<studiengang, ziele, heute, last>>

\* _save_studiengang, second step: the text is written, the file closed and
\* the redirect returned.
Schreiben ==
    \E i \in 1..Len(anfragen) :
        /\ anfragen[i].schritt = "write"
        /\ datei' = write(datei, anfragen[i].text[1])
        /\ anfragen' = [anfragen EXCEPT ![i] = Beantwortet]
        /\ UNCHANGED <<studiengang, ziele, heute, last>>

NextAnfragen ==
    \/ SeedDemo
    \/ PostAddModul
    \/ PostAddKurs
    \/ PostRecordGrade
    \/ EditKurs
    \/ PostDeleteKurs
    \/ Oeffnen
    \/ Schreiben

SpecAnfragen == InitAnfragen /\ [][NextAnfragen]_vars

(* ------------------------- sample Programs ---------------------------- *)

\* The outcome of a course description d written onto a Kurs by the
\* record_* calls.
MitLeistung(kurs, d) ==
    LET k1 == IF d.note # None THEN record_grade(kurs, d.note[1]) ELSE kurs
        k2 == IF d.bestanden # None THEN record_passed(k1, d.bestanden[1]) ELSE k1
    IN  IF d.datum # None THEN record_grade_and_date(k2, None, d.datum) ELSE k2

\* add_modul, add_kurs and the record_* calls for one course description.
MitBeschreibung(sg, sem_nr, modul_name, name, d) ==
    LET m == add_modul(sg, sem_nr, modul_name)
        k == add_kurs(m.sg, m.ret[1], m.ret[2], name, d.ects, d.art, d.startdatum)
    IN  MitKurs(k.sg, k.ret, MitLeistung(KursAn(k.sg, k.ret), d))

Beschreibung(ects, art, startdatum, note, bestanden, datum) ==
    [ects |-> ects, art |-> art, startdatum |-> startdatum,
     note |-> note, bestanden |-> bestanden, datum |-> datum]

(* ---------------------- goal-rule specification ----------------------- *)
(* A Program of two courses, a goals section of the configuration, and    *)
(* the day of the evaluation; from_config builds the rule list once and   *)
(* bewerte evaluates it.                                                  *)

\* Keys of one goals section.
MaxSchluessel == 3

ZielKurse ==
    { Beschreibung(5, "Klausur", Some(0), Some(10), None, Some(20)),
      Beschreibung(10, " KLAUSUR ", Some(0), Some(40), None, Some(30)),
      Beschreibung(5, "Hausarbeit", Some(0), None, Some(TRUE), Some(45)),
      Beschreibung(0, "Hausarbeit", None, None, None, None) }

Heute == {365, 366}

\* The <<key, value>> entries a goals section is made of.
Eintraege ==
    { <<"kursdauer_klausur_ziel", <<>>>>,
      <<"kursdauer_klausur_ziel", << <<"max_tage", 14>> >> >>,
      <<"kursdauer_sonstige_ziel", <<>>>>,
      <<"kursdauer_sonstige_ziel", << <<"max_tage", 50>> >> >>,
      <<"kursdauerziel", <<>>>>,
      <<"kursdauerziel", << <<"max_tage_klausur", 28>> >> >>,
      <<"kursdauerziel", << <<"max_tage_klausur", 28>>, <<"max_tage_sonstige", 40>> >> >>,
      <<"studienzeitziel", << <<"max_jahre", 1>> >> >>,
      <<"notenziel", << <<"max_durchschnitt", 19>> >> >>,
      <<"notenziel", << <<"max_durchschnitt", 30>> >> >>,
      <<"exzellenzziel", <<>>>>,
      <<"exzellenzziel", << <<"mindestanteil", 60>> >> >>,
      <<"farbe", <<>>>> }

\* The goals sections: up to MaxSchluessel entries of distinct keys.
Konfigurationen ==
    UNION { { z \in [1..n -> Eintraege] :
                \A i \in 1..n, j \in 1..n : z[i][1] = z[j][1] => i = j }
            : n \in 0..MaxSchluessel }

InitZiele ==
    \E da \in ZielKurse, db \in ZielKurse, today \in Heute :
        LET s0 == Studiengang("Softwareentwicklung", Startdatum)
            s1 == MitBeschreibung(s0, 1, "M", "A", da)
            s2 == MitBeschreibung(s1, 1, "M", "B", db)
        IN  /\ studiengang = s2
            /\ ziele = <<>>
            /\ heute = today
            /\ last = [op |-> "init", args |-> <<>>, ret |-> None]
            /\ datei = KeineDatei
            /\ anfragen = <<>>

\* GoalFactory.from_config(cfg)
FromConfig ==
    /\ last.op = "init"
    /\ \E zcfg \in Konfigurationen :
        /\ ziele' = from_config(zcfg)
        /\ last' = [op |-> "from_config", args |-> <<zcfg>>, ret |-> from_config(zcfg)]
    /\ UNCHANGED <<studiengang, heute, datei, anfragen>>

\* GoalEvaluator(ziele).bewerte(studiengang)
Bewerte ==
    /\ last.op = "from_config"
    /\ last' = [op |-> "bewerte", args |-> <<>>, ret |-> bewerte(ziele, studiengang, heute)]
    /\ UNCHANGED <<studiengang, ziele, heute, datei, anfragen>>

NextZiele == FromConfig \/ Bewerte

SpecZiele == InitZiele /\ [][NextZiele]_vars

(* --------------------- derived-value specification ------------------- *)
(* A Program of two courses in Semester 1 / Modul "M" and at most one in  *)
(* Semester 2 / Modul "N"; every derived-value query on it.               *)

KennzahlEcts == {0, 5, 10}

\* (note, bestanden) as the record_* calls leave them.
KennzahlLeistungen ==
    { <<None, None>>, <<Some(10), None>>, <<Some(40), None>>, <<Some(50), None>>,
      <<None, Some(TRUE)>> }

\* (art, startdatum, datum)
KennzahlTermine ==
    { <<"Klausur", Some(0), Some(21)>>, <<" KLAUSUR ", Some(0), Some(30)>>,
      <<"Hausarbeit", None, None>> }

KennzahlKurse ==
    { Beschreibung(e, t[1], t[2], l[1], l[2], t[3]) :
        e \in KennzahlEcts, l \in KennzahlLeistungen, t \in KennzahlTermine }

\* The second course: one of 5 ECTS.
KennzahlZweite == { d \in KennzahlKurse : d.ects = 5 }

\* The third course, when there is one: a Hausarbeit of 21 days and one of
\* 50 days, longer than either default limit.  With 15 ECTS at 1.3 beside 5 ECTS at
\* 1.0 the exact average is 1.225, and with 23 ECTS of a total of 40 the exact
\* progress is 57.5: the floats decide which way these go.
KennzahlDritte ==
    { Beschreibung(5, "Hausarbeit", Some(9), Some(40), None, Some(30)),
      Beschreibung(5, "Hausarbeit", Some(0), None, Some(TRUE), Some(50)),
      Beschreibung(0, "Klausur", None, Some(10), None, None),
      Beschreibung(15, "Klausur", None, Some(13), None, None),
      Beschreibung(23, "Klausur", None, Some(10), None, None) }

\* The targets of get_targets: the defaults, a configured total of 40 and a
\* configured total of 0.
Zielwerte ==
    { [total_ects |-> 180, total_exams |-> 36], [total_ects |-> 40, total_exams |-> 36],
      [total_ects |-> 0, total_exams |-> 36] }

\* One rule of each class, with the limits get_targets defaults to, and the
\* other duration rule also with a configured limit of 20 days, which every
\* dated Kurs of the samples exceeds.
Regeln ==
    { Ziel("Studienzeitziel", 3), Ziel("Notenziel", 19), Ziel("ExzellenzZiel", 10),
      Ziel("KursdauerKlausurZiel", 21), Ziel("KursdauerSonstigeZiel", 42),
      Ziel("KursdauerSonstigeZiel", 20) }

\* The legacy combined rule, with the limits get_targets defaults to and
\* with configured ones.
LegacyRegeln ==
    { Ziel("KursdauerZiel", <<21, 42>>), Ziel("KursdauerZiel", <<21, 20>>) }

InitKennzahlen ==
    \E da \in KennzahlKurse, db \in KennzahlZweite,
       dc \in {None} \cup {Some(d) : d \in KennzahlDritte} :
        LET s0 == Studiengang("Softwareentwicklung", Startdatum)
            s1 == MitBeschreibung(s0, 1, "M", "A", da)
            s2 == MitBeschreibung(s1, 1, "M", "B", db)
            s3 == IF dc = None THEN s2 ELSE MitBeschreibung(s2, 2, "N", "A", dc[1])
        IN  /\ studiengang = s3
            /\ ziele = <<>>
            /\ heute = Startdatum
            /\ last = [op |-> "init", args |-> <<>>, ret |-> None]
            /\ datei = KeineDatei
            /\ anfragen = <<>>

\* studiengang.durchschnitt
Durchschnitt ==
    /\ last' = [op |-> "Studiengang.durchschnitt", args |-> <<>>,
                ret |-> Ergebnis(durchschnitt(studiengang))]
    /\ UNCHANGED <<studiengang, ziele, heute, datei, anfragen>>

\* modul.durchschnitt
ModulDurchschnitt ==
    /\ \E p \in ModulPositionen(studiengang) :
        last' = [op |-> "Modul.durchschnitt", args |-> <<p>>,
                 ret |-> Modul_durchschnitt(studiengang.semester[p[1]].module[p[2]])]
    /\ UNCHANGED <<studiengang, ziele, heute, datei, anfragen>>

\* compute_dashboard_metrics(studiengang, targets)
Kennzahlen ==
    /\ \E targets \in Zielwerte :
        last' = [op |-> "compute_dashboard_metrics", args |-> <<targets>>,
                 ret |-> Ergebnis(compute_dashboard_metrics(studiengang, targets))]
    /\ UNCHANGED <<studiengang, ziele, heute, datei, anfragen>>

\* z.pruefe(studiengang)
Pruefe ==
    /\ \E z \in Regeln :
        last' = [op |-> "pruefe", args |-> <<z>>,
                 ret |-> Ergebnis(pruefe(z, studiengang, heute))]
    /\ UNCHANGED <<studiengang, ziele, heute, datei, anfragen>>

\* KursdauerZiel(...).pruefe(studiengang)
PruefeLegacy ==
    /\ \E z \in LegacyRegeln :
        last' = [op |-> "pruefe", args |-> <<z>>,
                 ret |-> Ergebnis(pruefe(z, studiengang, heute))]
    /\ UNCHANGED <<studiengang, ziele, heute, datei, anfragen>>

NextKennzahlen ==
    Durchschnitt \/ ModulDurchschnitt \/ Kennzahlen \/ Pruefe \/ PruefeLegacy

SpecKennzahlen == InitKennzahlen /\ [][NextKennzahlen]_vars


(* ------------------------------ claims -------------------------------- *)

\* C1: every (semester number, module name, course name) triple resolves to
\* at most one Course: no two Semesters share a number, no two Modules of a
\* Semester a name, no two Courses of a Modul a name.
C1_TripelEindeutig ==
    LET sem == studiengang.semester
    IN  /\ \A i, j \in 1..Len(sem) : i # j => sem[i].nummer # sem[j].nummer
        /\ \A si \in 1..Len(sem) :
               LET mods == sem[si].module
               IN  /\ \A i, j \in 1..Len(mods) : i # j => mods[i].name # mods[j].name
                   /\ \A mi \in 1..Len(mods) :
                          \A i, j \in 1..Len(mods[mi].kurse) :
                              i # j => mods[mi].kurse[i].name # mods[mi].kurse[j].name

\* The definition of "passed" of the data model: grade present and at most
\* 4.0, or the flag true.
Bestanden(kurs) ==
    \/ kurs.leistung.note # None /\ kurs.leistung.note[1] <= 40
    \/ kurs.leistung.bestanden = Some(TRUE)

\* C2: for every Course, whatever its grade and flag, ist_bestanden is true
\* iff (grade present and grade <= 4.0) or (flag true).
C2_BestandenGdw ==
    \A p \in KursPositionen(studiengang) :
        ist_bestanden(KursAn(studiengang, p)) <=> Bestanden(KursAn(studiengang, p))

\* A Kurs with both outcome channels set.
NoteUndFlag(kurs) == kurs.leistung.note # None /\ kurs.leistung.bestanden # None

\* C3 as stated: no Course ever has both a grade and the flag present.
C3_NoteOderFlag ==
    \A p \in KursPositionen(studiengang) : ~NoteUndFlag(KursAn(studiengang, p))

\* C3 as amended: a Course comes to have both a grade and the flag only by a
\* record_passed or a record_grade_and_date call, and the Course a
\* record_grade call wrote has a grade and no flag.
C3_NurPassedOderDatum ==
    [][ /\ \A p \in KursPositionen(studiengang) :
               ( /\ p \in KursPositionen(studiengang')
                 /\ NoteUndFlag(KursAn(studiengang', p))
                 /\ ~NoteUndFlag(KursAn(studiengang, p)) )
               => last'.op \in {"record_passed", "record_grade_and_date"}
        /\ last'.op = "record_grade"
               => ~NoteUndFlag(KursAn(studiengang', last'.args[1])) ]_vars

\* C3's case: a record_passed call on a graded Course left grade and flag.
C3_Zeuge ==
    /\ last.op = "record_passed"
    /\ last.args[2].leistung.note # None
    /\ NoteUndFlag(KursAn(studiengang, last.args[1]))

\* C4: record_grade(course, g) leaves the Course with grade g and no flag,
\* and with the name, ECTS, start date, assessment type and record date it had.
C4_RecordGrade ==
    last.op = "record_grade" =>
        LET alt == last.args[2]
            neu == KursAn(studiengang, last.args[1])
        IN  /\ neu.leistung.note = Some(last.args[3])
            /\ neu.leistung.bestanden = None
            /\ neu.name = alt.name
            /\ neu.ects = alt.ects
            /\ neu.startdatum = alt.startdatum
            /\ neu.leistung.art = alt.leistung.art
            /\ neu.leistung.datum = alt.leistung.datum

\* C4's case: record_grade on a Course that had the flag, another grade and
\* a record date.
C4_Zeuge ==
    /\ last.op = "record_grade"
    /\ last.args[2].leistung.bestanden = Some(TRUE)
    /\ last.args[2].leistung.note # None
    /\ last.args[2].leistung.note # Some(last.args[3])
    /\ last.args[2].leistung.datum # None
    /\ KursAn(studiengang, last.args[1]).leistung.bestanden = None

\* C5: a move_kurs that returns None and a delete_kurs that returns False
\* leave the Program exactly as it was.
C5_NichtGefundenOhneWirkung ==
    [][ ( \/ last'.op = "move_kurs" /\ last'.ret = None
          \/ last'.op = "delete_kurs" /\ last'.ret = FALSE )
        => studiengang' = studiengang ]_vars

Dauerschluessel == {"kursdauer_klausur_ziel", "kursdauer_sonstige_ziel", "kursdauerziel"}
Anzahl(zs, klasse) == Cardinality({ i \in 1..Len(zs) : zs[i].klasse = klasse })
Grenzen(zs, klasse) == { zs[i].wert : i \in { j \in 1..Len(zs) : zs[j].klasse = klasse } }

\* C6: whenever the goals section has one of the three duration keys, the
\* list from_config builds has exactly one KursdauerKlausurZiel and exactly
\* one KursdauerSonstigeZiel.
C6_JeEineDauerregel ==
    last.op = "from_config" =>
        ((\E key \in Dauerschluessel : Has(last.args[1], key)) =>
            /\ Anzahl(last.ret, "KursdauerKlausurZiel") = 1
            /\ Anzahl(last.ret, "KursdauerSonstigeZiel") = 1)

\* C7: with only the legacy key present the two duration rules carry the
\* legacy sub-fields (21 and 42 for an absent one); with both explicit keys
\* present they carry the explicit parameters, and a legacy key adds no rule
\* and no limit.
C7_EineForm ==
    last.op = "from_config" =>
        LET zcfg == last.args[1]
            kk == Get(zcfg, "kursdauer_klausur_ziel", <<>>)
            ks == Get(zcfg, "kursdauer_sonstige_ziel", <<>>)
            kd == Get(zcfg, "kursdauerziel", <<>>)
            nur_legacy == /\ Has(zcfg, "kursdauerziel")
                          /\ ~Has(zcfg, "kursdauer_klausur_ziel")
                          /\ ~Has(zcfg, "kursdauer_sonstige_ziel")
            beide == Has(zcfg, "kursdauer_klausur_ziel") /\ Has(zcfg, "kursdauer_sonstige_ziel")
        IN  /\ (nur_legacy \/ beide) =>
                /\ Anzahl(last.ret, "KursdauerKlausurZiel") = 1
                /\ Anzahl(last.ret, "KursdauerSonstigeZiel") = 1
            /\ nur_legacy =>
                /\ Grenzen(last.ret, "KursdauerKlausurZiel")
                       = {IF Has(kd, "max_tage_klausur") THEN Get(kd, "max_tage_klausur", 0) ELSE 21}
                /\ Grenzen(last.ret, "KursdauerSonstigeZiel")
                       = {IF Has(kd, "max_tage_sonstige") THEN Get(kd, "max_tage_sonstige", 0) ELSE 42}
            /\ beide =>
                /\ Grenzen(last.ret, "KursdauerKlausurZiel")
                       = {IF Has(kk, "max_tage") THEN Get(kk, "max_tage", 0) ELSE 21}
                /\ Grenzen(last.ret, "KursdauerSonstigeZiel")
                       = {IF Has(ks, "max_tage") THEN Get(ks, "max_tage", 0) ELSE 42}

\* Both explicit keys and a legacy key with other limits: two duration
\* rules, with the explicit limits.
C7_Zeuge ==
    /\ last.op = "from_config"
    /\ Has(last.args[1], "kursdauer_klausur_ziel")
    /\ Has(last.args[1], "kursdauer_sonstige_ziel")
    /\ Has(last.args[1], "kursdauerziel")
    /\ Get(Get(last.args[1], "kursdauer_klausur_ziel", <<>>), "max_tage", 21) = 14
    /\ Get(Get(last.args[1], "kursdauerziel", <<>>), "max_tage_klausur", 21) = 28
    /\ last.ret = << Ziel("KursdauerKlausurZiel", 14),
                     Ziel("KursdauerSonstigeZiel",
                          Get(Get(last.args[1], "kursdauer_sonstige_ziel", <<>>), "max_tage", 42)) >>

\* C8: the mapping bewerte returns has one entry per rule of the list, keyed
\* by the rule's class name and valued with that rule's own verdict.
C8_JedesUrteil ==
    last.op = "bewerte" =>
        /\ Cardinality(DOMAIN last.ret) = Len(ziele)
        /\ \A i \in 1..Len(ziele) :
            /\ ziele[i].klasse \in DOMAIN last.ret
            /\ last.ret[ziele[i].klasse] = pruefe(ziele[i], studiengang, heute)

\* The graded courses of the Program the query of the last step ran on.
BenoteteKurse == Benotete(AlleKurse(studiengang))

\* w (in hundredths) is sum(note * ects) / sum(ects) over the graded courses
\* ks, rounded to 2 decimals: a decimal nearest to the quotient, either of
\* the two where the quotient lies halfway between them.
IstGerundeterSchnitt(w, ks) ==
    LET d == w * SummeEcts(ks) - 10 * SummeNoteMalEcts(ks)
    IN  2 * (IF d < 0 THEN -d ELSE d) <= SummeEcts(ks)

\* C9: the Program average is None iff no Kurs has a grade; with exactly one
\* graded Kurs it is that grade whatever the ECTS of the Kurs; with several
\* it is sum(note * ects) / sum(ects) rounded to 2 decimals.
C9_Durchschnitt ==
    last.op = "Studiengang.durchschnitt" =>
        LET w == last.ret.wert
        IN  /\ last.ret.ok
            /\ w = None <=> BenoteteKurse = <<>>
            /\ Len(BenoteteKurse) = 1 => w = Some(10 * BenoteteKurse[1].leistung.note[1])
            /\ (Len(BenoteteKurse) > 1 /\ w # None) => IstGerundeterSchnitt(w[1], BenoteteKurse)

\* C9 as the code has it: the Program average is None iff the ECTS of the
\* graded courses sum to 0; with exactly one graded Kurs of positive ECTS it
\* is that grade; whenever it is a value it is sum(note * ects) / sum(ects)
\* over the graded courses rounded to 2 decimals.
C9_DurchschnittNachEcts ==
    last.op = "Studiengang.durchschnitt" =>
        LET w == last.ret.wert
        IN  /\ last.ret.ok
            /\ w = None <=> SummeEcts(BenoteteKurse) = 0
            /\ (Len(BenoteteKurse) = 1 /\ BenoteteKurse[1].ects > 0) =>
                   w = Some(10 * BenoteteKurse[1].leistung.note[1])
            /\ w # None => IstGerundeterSchnitt(w[1], BenoteteKurse)

\* The only graded Kurs of the Program has 0 ECTS, and the average is None.
C9_Zeuge ==
    /\ last.op = "Studiengang.durchschnitt"
    /\ Len(BenoteteKurse) = 1
    /\ BenoteteKurse[1].ects = 0
    /\ last.ret.wert = None

\* C10: no derived-value query raises: Modul.durchschnitt,
\* Studiengang.durchschnitt, compute_dashboard_metrics and every rule's pruefe
\* return a value or None on every Program.
C10_KeineAusnahme ==
    last.op \in {"Modul.durchschnitt", "Studiengang.durchschnitt",
                 "compute_dashboard_metrics", "pruefe"} => last.ret.ok

\* C11: in the metrics report completed_courses is the number of completed
\* courses of the Program (grade present, or flag present with either
\* value), and ects_earned is the sum of ECTS over the passed courses.
C11_AbgeschlosseneGezaehlt ==
    last.op = "compute_dashboard_metrics" =>
        LET kurse == AlleKurse(studiengang)
        IN  /\ last.ret.wert.completed_courses
                   = Cardinality({ i \in 1..Len(kurse) : ist_abgeschlossen(kurse[i]) })
            /\ last.ret.wert.ects_earned
                   = SummeEcts(SelectSeq(kurse, ist_bestanden))

\* The Modul at (sem_nr, modul_name) of sg holds a Kurs equal to kurs.
IstMitglied(sg, sem_nr, modul_name, kurs) ==
    LET si == _find_semester(sg, sem_nr)
    IN  /\ si # 0
        /\ LET mi == _find_modul(sg.semester[si], modul_name)
           IN  /\ mi # 0
               /\ \E ki \in 1..Len(sg.semester[si].module[mi].kurse) :
                      sg.semester[si].module[mi].kurse[ki] = kurs

\* C12: a move_kurs that finds its Kurs returns it with every attribute and
\* its Pruefungsleistung as before; the Kurs is then in the destination
\* Modul and, when source and destination differ, not in the source Modul;
\* the Program holds as many courses after the call as before.
C12_MoveErhaelt ==
    [][ (last'.op = "move_kurs" /\ last'.ret # None) =>
            LET from_sem == last'.args[1]
                from_mod == last'.args[2]
                to_sem == last'.args[4]
                to_mod == last'.args[5]
                alt == KursAn(studiengang,
                              find_kurs(studiengang, from_sem, from_mod, last'.args[3]))
            IN  /\ last'.ret = Some(alt)
                /\ IstMitglied(studiengang', to_sem, to_mod, alt)
                /\ (<<from_sem, from_mod>> # <<to_sem, to_mod>>) =>
                       ~IstMitglied(studiengang', from_sem, from_mod, alt)
                /\ AnzahlKurse(studiengang') = AnzahlKurse(studiengang) ]_vars

\* The positions of the modules of sg with the key (sem_nr, modul_name).
ModuleMit(sg, sem_nr, modul_name) ==
    { q \in ModulPositionen(sg) :
        /\ sg.semester[q[1]].nummer = sem_nr
        /\ sg.semester[q[1]].module[q[2]].name = modul_name }

\* The positions of the courses named name in the Modul at position q of sg.
KurseMit(sg, q, name) ==
    { r \in KursPositionen(sg) : r[1] = q[1] /\ r[2] = q[2] /\ KursAn(sg, r).name = name }

\* C13: add_modul leaves exactly one Modul with its key and add_kurs on a
\* Modul without the name exactly one Kurs of that name; a call whose entity
\* exists already returns that entity and changes nothing, so the existing
\* Kurs keeps its ECTS, assessment type and start date.
C13_ZweimalHinzufuegen ==
    [][ /\ last'.op = "add_modul" =>
            LET vorher == ModuleMit(studiengang, last'.args[1], last'.args[2])
                nachher == ModuleMit(studiengang', last'.args[1], last'.args[2])
            IN  /\ Cardinality(nachher) = 1
                /\ last'.ret \in nachher
                /\ vorher # {} => (studiengang' = studiengang /\ last'.ret \in vorher)
        /\ last'.op = "add_kurs" =>
            LET q == last'.args[1]
                kp == last'.args[3]
                vorher == KurseMit(studiengang, q, last'.args[2])
                nachher == KurseMit(studiengang', q, last'.args[2])
            IN  /\ last'.ret \in nachher
                /\ vorher = {} =>
                       /\ Cardinality(nachher) = 1
                       /\ AnzahlKurse(studiengang') = AnzahlKurse(studiengang) + 1
                       /\ KursAn(studiengang', last'.ret)
                              = Kurs(last'.args[2], kp.ects, Pruefungsleistung(kp.art),
                                     kp.startdatum)
                /\ vorher # {} =>
                       /\ studiengang' = studiengang
                       /\ last'.ret \in vorher ]_vars

\* add_kurs has been called with the name of an existing Kurs and another
\* ECTS value; the Kurs returned has kept its own.
C13_Zeuge ==
    /\ last.op = "add_kurs"
    /\ KursAn(studiengang, last.ret).ects # last.args[3].ects
    /\ KursAn(studiengang, last.ret).leistung.art # last.args[3].art
    /\ Cardinality(KurseMit(studiengang, last.args[1], last.args[2])) = 1

\* C14: every Kurs that is passed is completed.
C14_BestandenIstAbgeschlossen ==
    \A p \in KursPositionen(studiengang) :
        ist_bestanden(KursAn(studiengang, p)) => ist_abgeschlossen(KursAn(studiengang, p))

\* The converse fails: one Kurs is passed by its flag, and another is
\* completed with a grade above 4.0 or with flag false, and not passed.
C14_Zeuge ==
    /\ \E p \in KursPositionen(studiengang) :
           /\ KursAn(studiengang, p).leistung.note = None
           /\ ist_bestanden(KursAn(studiengang, p))
           /\ ist_abgeschlossen(KursAn(studiengang, p))
    /\ \E p \in KursPositionen(studiengang) :
           /\ \/ KursAn(studiengang, p).leistung.bestanden = Some(FALSE)
              \/ KursAn(studiengang, p).leistung.note = Some(50)
           /\ ist_abgeschlossen(KursAn(studiengang, p))
           /\ ~ist_bestanden(KursAn(studiengang, p))

SemesterDa(sg, sem_nr) == _find_semester(sg, sem_nr) # 0
ModulDa(sg, sem_nr, modul_name) ==
    /\ SemesterDa(sg, sem_nr)
    /\ _find_modul(sg.semester[_find_semester(sg, sem_nr)], modul_name) # 0

\* The step is a move_kurs or a delete_kurs that removed a Kurs.
HatEntfernt ==
    \/ last'.op = "move_kurs" /\ last'.ret # None
    \/ last'.op = "delete_kurs" /\ last'.ret = TRUE

\* C15: after a move_kurs or delete_kurs that removed a Kurs, the source
\* Modul is still there iff it still holds a Kurs, and the source Semester
\* iff it still holds a Modul, the destination of a move being found or
\* created afterwards; no other Modul and no other Semester is removed.
C15_KaskadeAufraeumen ==
    [][ HatEntfernt =>
          LET sem_nr == last'.args[1]
              modul_name == last'.args[2]
              kurs_name == last'.args[3]
              move == last'.op = "move_kurs"
              sem == studiengang.semester[_find_semester(studiengang, sem_nr)]
              modul == sem.module[_find_modul(sem, modul_name)]
              haelt_kurs == \E i \in 1..Len(modul.kurse) : modul.kurse[i].name # kurs_name
              haelt_modul == haelt_kurs \/ \E i \in 1..Len(sem.module) :
                                               sem.module[i].name # modul_name
          IN  /\ ModulDa(studiengang', sem_nr, modul_name)
                   <=> (haelt_kurs \/ (move /\ <<last'.args[4], last'.args[5]>>
                                                  = <<sem_nr, modul_name>>))
              /\ SemesterDa(studiengang', sem_nr)
                   <=> (haelt_modul \/ (move /\ last'.args[4] = sem_nr))
              /\ \A n \in SemNummern, m \in ModulNamen :
                   /\ (n # sem_nr /\ SemesterDa(studiengang, n)) => SemesterDa(studiengang', n)
                   /\ (<<n, m>> # <<sem_nr, modul_name>> /\ ModulDa(studiengang, n, m))
                          => ModulDa(studiengang', n, m) ]_vars

\* A move_kurs to another Semester has taken the last Kurs out of the only
\* Modul of its Semester: the Semester is gone, and so is the Modul.
C15_Zeuge ==
    /\ last.op = "move_kurs"
    /\ last.ret # None
    /\ last.args[1] # last.args[4]
    /\ ~SemesterDa(studiengang, last.args[1])
    /\ SemesterDa(studiengang, last.args[4])

\* A Kurs the duration rule with this predicate looks at: completed, both
\* dates set, and of assessment type "klausur" (trimmed, lower case) for
\* the exam rule, of any other type for the other rule.
ZaehltFuer(kurs, klausur) ==
    /\ ist_abgeschlossen(kurs)
    /\ kurs.startdatum # None
    /\ kurs.leistung.datum # None
    /\ (strip_lower(kurs.leistung.art) = "klausur") = klausur

\* No Kurs the rule looks at took more than max_tage days.
KeinerUeber(sg, klausur, max_tage) ==
    ~\E p \in KursPositionen(sg) :
        /\ ZaehltFuer(KursAn(sg, p), klausur)
        /\ KursAn(sg, p).leistung.datum[1] - KursAn(sg, p).startdatum[1] > max_tage

\* C16: a duration rule with limit max_tage passes iff no completed Kurs
\* with both dates and a matching assessment type took more than max_tage
\* days; KursdauerZiel passes iff the exam rule and the other rule both pass.
C16_Kursdauer ==
    last.op = "pruefe" =>
        LET z == last.args[1]
        IN  /\ z.klasse = "KursdauerKlausurZiel" =>
                   (last.ret.wert <=> KeinerUeber(studiengang, TRUE, z.wert))
            /\ z.klasse = "KursdauerSonstigeZiel" =>
                   (last.ret.wert <=> KeinerUeber(studiengang, FALSE, z.wert))
            /\ z.klasse = "KursdauerZiel" =>
                   (last.ret.wert <=> (/\ KeinerUeber(studiengang, TRUE, z.wert[1])
                                       /\ KeinerUeber(studiengang, FALSE, z.wert[2])))

\* The legacy rule has failed a Program on its other half alone: no exam
\* Kurs is over the exam limit, an exam Kurs is over the other limit and is
\* passed over for it, and a Kurs of another type is over the other limit.
C16_Zeuge ==
    /\ last.op = "pruefe"
    /\ last.args[1].klasse = "KursdauerZiel"
    /\ last.ret.wert = FALSE
    /\ KeinerUeber(studiengang, TRUE, last.args[1].wert[1])
    /\ \E p \in KursPositionen(studiengang) :
           /\ ZaehltFuer(KursAn(studiengang, p), TRUE)
           /\ Dauer(KursAn(studiengang, p)) > last.args[1].wert[2]
    /\ \E p \in KursPositionen(studiengang) :
           /\ ZaehltFuer(KursAn(studiengang, p), FALSE)
           /\ Dauer(KursAn(studiengang, p)) > last.args[1].wert[2]

====
